---- MODULE Spec2Model ----
(***************************************************************************)
(* A model of subzero/modification/mods/common.py: the subtitle            *)
(* modifications CommonFixes, RemoveTags, ReverseRTL, FixUppercase,        *)
(* FixIncremental and FixShort.                                             *)
(*                                                                          *)
(* Text is a sequence of characters, each character a one-element string.  *)
(* Characters outside ASCII are written as named tokens ("<note>" is the   *)
(* musical note U+266A, "<emdash>" is U+2014, ...), and the two-character  *)
(* line-break marker backslash-N of an entry's text is the single token NL.*)
(***************************************************************************)
EXTENDS Integers, Sequences, FiniteSets, TLC

VARIABLES
    ident,              \* identifier of the modification that is running
    language,           \* the language of the subtitle (p.language)
    encoding,           \* sys.stdout.encoding, "None" when there is none
    input,              \* the entry sequence, or the line, as it was handed in
    f,                  \* parent.f: the entry sequence
    pc,                 \* "loop" while modify iterates, "done" after it returned,
                        \* "raised" after it raised an exception
    index,              \* number of entries of parent.f the loop has consumed
    prev_entry,         \* FixIncremental / FixShort: prev_entry
    entries,            \* FixShort: entries
    last_lines,         \* FixShort: last_lines
    has_space,          \* FixShort: has_space
    current_new_lines,  \* FixShort: current_new_lines of the last iteration
    f_entries,          \* FixShort: parent.f.entries
    content,            \* text modifications: the line being processed
    proc,               \* text modifications: index of the next processor
    results             \* text modifications: the result of each completed run

vars == <<ident, language, encoding, input, f, pc, index, prev_entry, entries, last_lines,
          has_space, current_new_lines, f_entries, content, proc, results>>

-----------------------------------------------------------------------------
(* Characters *)

NL == "\\N"
None == [none |-> TRUE]

LowerLetters ==
    <<"a","b","c","d","e","f","g","h","i","j","k","l","m",
      "n","o","p","q","r","s","t","u","v","w","x","y","z">>
UpperLetters ==
    <<"A","B","C","D","E","F","G","H","I","J","K","L","M",
      "N","O","P","Q","R","S","T","U","V","W","X","Y","Z">>

Range(s) == {s[i] : i \in 1..Len(s)}
IndexOf(s, c) == CHOOSE i \in 1..Len(s) : s[i] = c

\* unicode.lower / unicode.upper of one character
LowerChar(c) ==
    IF c \in Range(UpperLetters) THEN LowerLetters[IndexOf(UpperLetters, c)]
    ELSE IF c = "<A-grave>" THEN "<a-grave>"
    ELSE IF c = "<Z-caron>" THEN "<z-caron>"
    ELSE c
UpperChar(c) ==
    IF c \in Range(LowerLetters) THEN UpperLetters[IndexOf(LowerLetters, c)]
    ELSE IF c = "<a-grave>" THEN "<A-grave>"
    ELSE IF c = "<z-caron>" THEN "<Z-caron>"
    ELSE c

\* the characters of a text: the marker NL is the two characters backslash
\* and N, and a text holds that pair as the marker only
RECURSIVE Chars(_)
Chars(t) ==
    IF t = <<>> THEN <<>>
    ELSE (IF Head(t) = NL THEN <<"\\", "N">> ELSE <<Head(t)>>) \o Chars(Tail(t))

\* unicode.lower, character by character
LowerAll(cs) == [i \in 1..Len(cs) |-> LowerChar(cs[i])]
Lower(s) == LowerAll(Chars(s))

\* unicode.endswith, character by character
EndsWithAll(cs, ct) ==
    /\ Len(ct) <= Len(cs)
    /\ SubSeq(cs, Len(cs) - Len(ct) + 1, Len(cs)) = ct
EndsWith(s, t) == EndsWithAll(Chars(s), Chars(t))

\* text.split("\N"): the lines of a text
RECURSIVE Split(_)
Split(t) ==
    IF \A i \in 1..Len(t) : t[i] # NL THEN <<t>>
    ELSE LET i == CHOOSE j \in 1..Len(t) : t[j] = NL /\ \A k \in 1..(j-1) : t[k] # NL
         IN  <<SubSeq(t, 1, i - 1)>> \o Split(SubSeq(t, i + 1, Len(t)))

\* "\N".join(lines)
RECURSIVE Join(_)
Join(lines) ==
    IF lines = <<>> THEN <<>>
    ELSE IF Len(lines) = 1 THEN lines[1]
    ELSE lines[1] \o <<NL>> \o Join(Tail(lines))

-----------------------------------------------------------------------------
(* Regular expressions (the re module as the patterns below use it).       *)
(*                                                                          *)
(* A pattern is a record: k names its kind.  ReRun is the backtracking     *)
(* matcher: it tries the ways a pattern can match in the matcher's order   *)
(* and stops at the first that succeeds.  The marks of the groups are the  *)
(* matcher's state: a way that fails leaves the marks it has set, and they *)
(* are taken back only where the matcher takes them back.  Positions count *)
(* the characters before them (0 .. Len(s)).                                *)

Set(S)        == [k |-> "set", s |-> S]                \* [...]
NotSet(S)     == [k |-> "nset", s |-> S]               \* [^...]
Cat(xs)       == [k |-> "cat", xs |-> xs]              \* x y z
Alt(xs)       == [k |-> "alt", xs |-> xs]              \* x|y|z
\* a repetition counts its rounds (n) and remembers where the last round that
\* was not required began (last, -1 when there was none)
Rep(x, lo, hi) ==
    [k |-> "rep", x |-> x, min |-> lo, max |-> hi, greedy |-> TRUE, n |-> 0, last |-> 0 - 1]
Lazy(x, lo, hi) ==
    [k |-> "rep", x |-> x, min |-> lo, max |-> hi, greedy |-> FALSE, n |-> 0, last |-> 0 - 1]
Inf           == 0 - 1                                 \* no upper limit
Star(x)       == Rep(x, 0, Inf)                        \* x*
Plus(x)       == Rep(x, 1, Inf)                        \* x+
Opt(x)        == Rep(x, 0, 1)                          \* x?
Grp(n, x)     == [k |-> "grp", n |-> n, x |-> x]       \* (x), the n-th group
NGrp(x)       == [k |-> "ngrp", x |-> x]               \* (?:x)
Bol           == [k |-> "bol"]                         \* ^
Eol           == [k |-> "eol"]                         \* $
WordB(W)      == [k |-> "wb", w |-> W]                 \* \b, for word characters W
Ahead(x)      == [k |-> "la", x |-> x, pos |-> TRUE]   \* (?=x)
NotAhead(x)   == [k |-> "la", x |-> x, pos |-> FALSE]  \* (?!x)
Behind(x, w)  == [k |-> "lb", x |-> x, w |-> w, pos |-> TRUE]   \* (?<=x), x of width w
NotBehind(x, w) == [k |-> "lb", x |-> x, w |-> w, pos |-> FALSE] \* (?<!x)
Chr(c)        == Set({c})
Dot           == NotSet({"\n"})                        \* .

\* The marks (state.mark, state.lastmark): marks[k + 1] is mark k, the
\* position at which group k \div 2 + 1 began (k even) or ended (k odd), Null
\* for a mark that is not set; lastmark is Len(marks) - 1.
Null == 0 - 1
\* the opcode MARK k at position i: marks between lastmark and k become Null
SetMark(marks, k, i) ==
    IF k + 1 > Len(marks)
    THEN marks \o [j \in 1..(k - Len(marks)) |-> Null] \o <<i>>
    ELSE [marks EXCEPT ![k + 1] = i]
\* LASTMARK_RESTORE: lastmark is set back, the marks below it stay as they are
LastMarkRestore(now, saved) == SubSeq(now, 1, Len(saved))
\* MARK_POP and LASTMARK_RESTORE: the marks are set back too, if the saved
\* lastmark was above 0
MarkPop(now, saved) == IF Len(saved) > 1 THEN saved ELSE SubSeq(now, 1, Len(saved))
\* the groups of a match: the groups below lastmark with both marks set
Caps(marks) ==
    [n \in {g \in 1..(Len(marks) \div 2) : marks[2 * g - 1] # Null /\ marks[2 * g] # Null}
        |-> <<marks[2 * n - 1], marks[2 * n]>>]

\* sre_compile._simple: the repetition of one character or one set is
\* compiled to REPEAT_ONE or MIN_REPEAT_ONE; the repetition of anything else,
\* which is a group, to REPEAT with MAX_UNTIL or MIN_UNTIL
Simple(re) == re.x.k \in {"set", "nset"}

\* The items still to be matched are kept on a list.  Beside patterns the
\* list holds: a mark to set; the position at which a lookbehind has to end;
\* the end of the pattern of an assertion (rp: the assertion lies in the
\* body of a repetition); and a REPEAT_ONE or MIN_REPEAT_ONE at work (n
\* items matched, lastmark saved).
Mark(m)            == [k |-> "mark", m |-> m]
EndAt(at)          == [k |-> "endat", at |-> at]
Accept(rp)         == [k |-> "accept", rp |-> rp]
Back(re, n, saved) == [k |-> "back", re |-> re, n |-> n, saved |-> saved]
LazyTail(re, n, saved) == [k |-> "ltail", re |-> re, n |-> n, saved |-> saved]
\* a repetition that starts a required round
Required(re) == [re EXCEPT !.n = @ + 1]
\* a repetition that starts, at position i, a round that is not required
Again(re, i) == [re EXCEPT !.n = @ + 1, !.last = i]
\* a repetition may start a round that is not required at position i: it has
\* rounds left, and its last such round did not begin at i (a round that
\* matched the empty text is not repeated)
MayRepeat(re, i) == (re.max = Inf \/ re.n < re.max) /\ i # re.last
\* state.repeat is set: the items lie in the body of a REPEAT
InRepeat(todo) ==
    \E j \in 1..Len(todo) :
        \/ todo[j].k = "rep" /\ todo[j].n > 0
        \/ todo[j].k = "accept" /\ todo[j].rp


\* SRE_COUNT of one character or one set: the number of characters from
\* position i on that it matches, lim at most
CharOk(x, c) == IF x.k = "set" THEN c \in x.s ELSE c \notin x.s
RunLength(x, s, i, lim) ==
    CHOOSE n \in 0..lim :
        /\ \A j \in 1..n : CharOk(x, s[i + j])
        /\ n = lim \/ ~CharOk(x, s[i + n + 1])
Limit(max, s, i) == IF max = Inf \/ max > Len(s) - i THEN Len(s) - i ELSE max

\* the outcomes of the matcher: the position the match ends at, or none,
\* and the marks it leaves
Matched(i, marks) == [ok |-> TRUE, end |-> i, marks |-> marks]
Failed(marks)     == [ok |-> FALSE, end |-> 0 - 1, marks |-> marks]

\* SRE_MATCH: the outcome of matching the items of todo, one after the
\* other, from position i of s, the marks being marks
RECURSIVE ReRun(_, _, _, _)
\* BRANCH: after an alternative that failed the next one is tried
Branched(r, todo, s, i, marks) ==
    IF r.ok THEN r
    ELSE ReRun(<<Alt(Tail(todo[1].xs))>> \o Tail(todo), s, i,
               IF InRepeat(Tail(todo)) THEN MarkPop(r.marks, marks)
               ELSE LastMarkRestore(r.marks, marks))
\* MAX_UNTIL: after a round that failed the tail is tried
Repeated(r, todo, s, i, marks) ==
    IF r.ok THEN r ELSE ReRun(Tail(todo), s, i, MarkPop(r.marks, marks))
\* MIN_UNTIL: after a tail that failed another round is tried
Tailed(r, todo, s, i, marks) ==
    IF r.ok THEN r
    ELSE IF MayRepeat(todo[1], i)
         THEN ReRun(<<todo[1].x, Again(todo[1], i)>> \o Tail(todo), s, i,
                    LastMarkRestore(r.marks, marks))
         ELSE Failed(LastMarkRestore(r.marks, marks))
\* REPEAT_ONE of one character or one set, which matches n characters
CountedChars(n, todo, s, i, marks) ==
    ReRun(<<Back(todo[1], n, Len(marks))>> \o Tail(todo), s, i + n, marks)
\* MIN_REPEAT_ONE of one character or one set, which matches n characters
\* of the min it needs
LazyCountedChars(n, todo, s, i, marks) ==
    IF n < todo[1].min THEN Failed(marks)
    ELSE ReRun(<<LazyTail(todo[1], n, Len(marks))>> \o Tail(todo), s, i + n, marks)
\* REPEAT_ONE: after a tail that failed one item is given back
Backed(r, todo, s, i) ==
    IF r.ok THEN r
    ELSE ReRun(<<Back(todo[1].re, todo[1].n - 1, todo[1].saved)>> \o Tail(todo), s, i - 1,
               SubSeq(r.marks, 1, todo[1].saved))
\* MIN_REPEAT_ONE: after a tail that failed one more character is matched;
\* the lastmark is set back only if there is one
LazyTailed(r, todo, s, i) ==
    IF r.ok THEN r
    ELSE IF i < Len(s) /\ CharOk(todo[1].re.x, s[i + 1])
         THEN ReRun(<<LazyTail(todo[1].re, todo[1].n + 1, todo[1].saved)>> \o Tail(todo),
                    s, i + 1, SubSeq(r.marks, 1, todo[1].saved))
         ELSE Failed(r.marks)
\* ASSERT and ASSERT_NOT: the text goes on from i if the assertion's pattern
\* matched (ASSERT) or did not (ASSERT_NOT), with the marks the attempt left
Asserted(r, todo, s, i) ==
    IF r.ok = todo[1].pos THEN ReRun(Tail(todo), s, i, r.marks) ELSE Failed(r.marks)
ReRun(todo, s, i, marks) ==
    IF todo = <<>> THEN Matched(i, marks)
    ELSE
    CASE todo[1].k = "set" ->
            IF i < Len(s) /\ s[i + 1] \in todo[1].s
            THEN ReRun(Tail(todo), s, i + 1, marks) ELSE Failed(marks)
      [] todo[1].k = "nset" ->
            IF i < Len(s) /\ s[i + 1] \notin todo[1].s
            THEN ReRun(Tail(todo), s, i + 1, marks) ELSE Failed(marks)
      [] todo[1].k = "cat" -> ReRun(todo[1].xs \o Tail(todo), s, i, marks)
      [] todo[1].k = "alt" ->
            IF todo[1].xs = <<>> THEN Failed(marks)
            ELSE Branched(ReRun(<<Head(todo[1].xs)>> \o Tail(todo), s, i, marks),
                          todo, s, i, marks)
      [] todo[1].k = "rep" ->
            IF Simple(todo[1])
            THEN IF i + todo[1].min > Len(s) THEN Failed(marks)
                 ELSE IF todo[1].greedy
                      THEN CountedChars(RunLength(todo[1].x, s, i, Limit(todo[1].max, s, i)),
                                        todo, s, i, marks)
                      ELSE LazyCountedChars(RunLength(todo[1].x, s, i, todo[1].min),
                                            todo, s, i, marks)
            \* the required rounds first; then a greedy repetition tries
            \* another round before the tail, a lazy one the tail first
            ELSE IF todo[1].n < todo[1].min
                 THEN ReRun(<<todo[1].x, Required(todo[1])>> \o Tail(todo), s, i, marks)
                 ELSE IF todo[1].greedy
                      THEN IF MayRepeat(todo[1], i)
                           THEN Repeated(ReRun(<<todo[1].x, Again(todo[1], i)>> \o Tail(todo),
                                               s, i, marks),
                                         todo, s, i, marks)
                           ELSE ReRun(Tail(todo), s, i, marks)
                      ELSE Tailed(ReRun(Tail(todo), s, i, marks), todo, s, i, marks)
      [] todo[1].k = "back" ->
            IF todo[1].n < todo[1].re.min THEN Failed(marks)
            ELSE Backed(ReRun(Tail(todo), s, i, marks), todo, s, i)
      [] todo[1].k = "ltail" ->
            IF todo[1].re.max = Inf \/ todo[1].n <= todo[1].re.max
            THEN LazyTailed(ReRun(Tail(todo), s, i, marks), todo, s, i)
            ELSE Failed(marks)
      [] todo[1].k = "grp" ->
            ReRun(<<Mark(2 * todo[1].n - 2), todo[1].x, Mark(2 * todo[1].n - 1)>> \o Tail(todo),
                  s, i, marks)
      [] todo[1].k = "ngrp" -> ReRun(<<todo[1].x>> \o Tail(todo), s, i, marks)
      [] todo[1].k = "mark" -> ReRun(Tail(todo), s, i, SetMark(marks, todo[1].m, i))
      [] todo[1].k = "bol" -> IF i = 0 THEN ReRun(Tail(todo), s, i, marks) ELSE Failed(marks)
      [] todo[1].k = "eol" ->
            IF i = Len(s) \/ (i = Len(s) - 1 /\ s[Len(s)] = "\n")
            THEN ReRun(Tail(todo), s, i, marks) ELSE Failed(marks)
      [] todo[1].k = "wb" ->
            IF (i > 0 /\ s[i] \in todo[1].w) # (i < Len(s) /\ s[i + 1] \in todo[1].w)
            THEN ReRun(Tail(todo), s, i, marks) ELSE Failed(marks)
      [] todo[1].k = "la" ->
            Asserted(ReRun(<<todo[1].x, Accept(InRepeat(Tail(todo)))>>, s, i, marks),
                     todo, s, i)
      [] todo[1].k = "lb" ->
            \* no room for the pattern before i: ASSERT fails, ASSERT_NOT holds
            IF i < todo[1].w
            THEN IF todo[1].pos THEN Failed(marks) ELSE ReRun(Tail(todo), s, i, marks)
            ELSE Asserted(ReRun(<<todo[1].x, EndAt(i), Accept(InRepeat(Tail(todo)))>>,
                                s, i - todo[1].w, marks),
                          todo, s, i)
      [] todo[1].k = "endat" ->
            IF i = todo[1].at THEN ReRun(Tail(todo), s, i, marks) ELSE Failed(marks)
      [] todo[1].k = "accept" -> Matched(i, marks)

NoMatch == [start |-> -1, end |-> -1, caps |-> <<>>]

\* the match that starts at i, given the matcher's outcome there
FirstOutcome(r, i) ==
    IF r.ok THEN [start |-> i, end |-> r.end, caps |-> Caps(r.marks)] ELSE NoMatch

\* pattern.match(s, i): the match at position i, if there is one
ReMatchAt(re, s, i) == FirstOutcome(ReRun(<<re>>, s, i, <<>>), i)

\* SRE_SEARCH: the leftmost match that starts at pos or later; the marks an
\* attempt leaves are the marks of the attempt at the next position
RECURSIVE ReSearchOn(_, _, _, _)
OrSearch(r, re, s, pos) ==
    IF r.ok THEN FirstOutcome(r, pos) ELSE ReSearchOn(re, s, pos + 1, r.marks)
ReSearchOn(re, s, pos, marks) ==
    IF pos > Len(s) THEN NoMatch
    ELSE OrSearch(ReRun(<<re>>, s, pos, marks), re, s, pos)
\* pattern.search(s, pos)
ReSearch(re, s, pos) == ReSearchOn(re, s, pos, <<>>)

\* the matches that pattern.sub replaces, left to right, searching from pos
\* when the match before ended at last (-1 when there was none): an empty
\* match right where the match before ended is passed over, and after an
\* empty match the search moves on by one character
RECURSIVE ReFindAll(_, _, _, _)
AndFindAll(m, re, s, last) ==
    IF m = NoMatch THEN <<>>
    ELSE IF m.start = m.end
         THEN IF m.start = last
              THEN ReFindAll(re, s, m.end + 1, last)
              ELSE <<m>> \o ReFindAll(re, s, m.end + 1, m.end)
         ELSE <<m>> \o ReFindAll(re, s, m.end, m.end)
ReFindAll(re, s, pos, last) == AndFindAll(ReSearch(re, s, pos), re, s, last)

\* the matches at which pattern.split splits, left to right, searching from
\* pos: an empty match is passed over
RECURSIVE ReSplitAll(_, _, _)
AndSplitAll(m, re, s) ==
    IF m = NoMatch THEN <<>>
    ELSE IF m.start = m.end THEN ReSplitAll(re, s, m.end + 1)
         ELSE <<m>> \o ReSplitAll(re, s, m.end)
ReSplitAll(re, s, pos) == AndSplitAll(ReSearch(re, s, pos), re, s)

\* match.group(n); a group that took no part in the match is empty
Group(s, m, n) ==
    IF n \in DOMAIN m.caps THEN SubSeq(s, m.caps[n][1] + 1, m.caps[n][2]) ELSE <<>>

\* s with each of the matches ms replaced by what Repl makes of it
Replace(ms, Repl(_, _), s) ==
    LET F[n \in 0..Len(ms)] ==
            IF n = 0 THEN <<>>
            ELSE F[n - 1]
                 \o SubSeq(s, (IF n = 1 THEN 0 ELSE ms[n - 1].end) + 1, ms[n].start)
                 \o Repl(s, ms[n])
    IN  IF ms = <<>> THEN s
        ELSE F[Len(ms)] \o SubSeq(s, ms[Len(ms)].end + 1, Len(s))

\* pattern.sub(repl, s), repl a function of the text and the match
ReSub(re, Repl(_, _), s) == Replace(ReFindAll(re, s, 0, 0 - 1), Repl, s)

-----------------------------------------------------------------------------
(* Character classes.  Of the characters outside ASCII the model knows the *)
(* ones the patterns name and two accented letter pairs, U+00C0/U+00E0 and *)
(* U+017D/U+017E, the ends of the ranges the patterns use.                 *)

Digits      == {"0","1","2","3","4","5","6","7","8","9"}
AsciiLower  == Range(LowerLetters)                       \* [a-z]
AsciiUpper  == Range(UpperLetters)                       \* [A-Z]
AsciiWord   == AsciiLower \cup AsciiUpper \cup Digits \cup {"_"}   \* \w without (?u)
AsciiSpace  == {" ", "\t", "\n", "\r"}                   \* \s without (?u)
Accented    == {"<A-grave>", "<a-grave>", "<Z-caron>", "<z-caron>"}
\* \w under (?u): the letters and digits of Unicode, of which U+02BC, the
\* modifier letter apostrophe, is one
UWord       == AsciiWord \cup Accented \cup {"<mod-apostrophe>"}
USpace      == AsciiSpace \cup {"<nbsp>"}                \* \s under (?u)

-----------------------------------------------------------------------------
(* ReverseRTL *)

\* (?u)(^([\s.!?:,'-]*)(.+?)(\s*)(-?\s*)$)
RTL_reverse_re ==
    Grp(1, Cat(<<Bol,
                 Grp(2, Star(Set(USpace \cup {".", "!", "?", ":", ",", "'", "-"}))),
                 Grp(3, Lazy(Dot, 1, Inf)),
                 Grp(4, Star(Set(USpace))),
                 Grp(5, Cat(<<Opt(Chr("-")), Star(Set(USpace))>>)),
                 Eol>>))

\* the replacement r"\5\4\3\2"
RTL_reverse_repl(s, m) == Group(s, m, 5) \o Group(s, m, 4) \o Group(s, m, 3) \o Group(s, m, 2)

CM_RTL_reverse(line) == ReSub(RTL_reverse_re, RTL_reverse_repl, line)

-----------------------------------------------------------------------------
(* FixUppercase *)

\* (\s*[.!?<note>\-]\s*), compiled without (?u)
split_upper_re ==
    Grp(1, Cat(<<Star(Set(AsciiSpace)),
                 Set({".", "!", "?", "<note>", "-"}),
                 Star(Set(AsciiSpace))>>))

\* the pieces of s between the matches ms, each match's group 1 between them
Pieces(ms, s) ==
    LET F[n \in 0..Len(ms)] ==
            IF n = 0 THEN <<>>
            ELSE F[n - 1]
                 \o <<SubSeq(s, (IF n = 1 THEN 0 ELSE ms[n - 1].end) + 1, ms[n].start)>>
                 \o <<Group(s, ms[n], 1)>>
    IN  IF ms = <<>> THEN <<s>>
        ELSE F[Len(ms)] \o <<SubSeq(s, ms[Len(ms)].end + 1, Len(s))>>

\* pattern.split(s) for a pattern with one group
ReSplit(re, s) == Pieces(ReSplitAll(re, s, 0), s)

\* a capitalize that leaves the case of all but the first character alone
CapitalizeFirstOnly(s) ==
    [i \in 1..Len(s) |-> IF i = 1 THEN UpperChar(s[i]) ELSE s[i]]

\* unicode.capitalize
Capitalize(s) ==
    [i \in 1..Len(s) |-> IF i = 1 THEN UpperChar(s[i]) ELSE LowerChar(s[i])]

\* u"".join(parts)
RECURSIVE Concat(_)
Concat(parts) == IF parts = <<>> THEN <<>> ELSE Head(parts) \o Concat(Tail(parts))

\* FixUppercase.capitalize
CapitalizeAll(parts) == [n \in 1..Len(parts) |-> Capitalize(parts[n])]
capitalize(c) == Concat(CapitalizeAll(ReSplit(split_upper_re, c)))


-----------------------------------------------------------------------------
(* CommonFixes.processors: one pattern, one replacement and one operator   *)
(* per rule.  Lit(t) is the pattern of the literal text t.                 *)

Lit(t) == Cat([i \in 1..Len(t) |-> Chr(t[i])])
\* a literal under the flag (?i)
LitI(t) == Cat([i \in 1..Len(t) |-> Set({LowerChar(t[i]), UpperChar(t[i])})])

SQuotes == {"'", "<rsquo>", "<mod-apostrophe>", "<heavy-comma>", "<lsquo>", "<rev-squote>"}
DQuotes == {"\"", "<rdquo>", "<ldquo>", "<rev-dquote>", "<low-dquote>"}
\* [A-z]: the letters and the six characters between Z and a
AtoZ    == AsciiUpper \cup AsciiLower \cup {"[", "\\", "]", "^", "_", "<backtick>"}
\* [A-z<A-grave>-<z-caron>]
Letterish == AtoZ \cup Accented
\* [A-z<A-grave>-<z-caron>] in the pattern of line 119, which is a byte string:
\* the class is A-z and the bytes C3, 80 to C5 and BE of the two accented
\* letters, read as the characters U+0080 to U+00C5
BytesLetterish == AtoZ \cup {"<nbsp>", "<pilcrow>", "<A-grave>"}
\* [a-z<a-grave>-<z-caron>]: U+017D, an upper-case letter, lies in the range
LowerRange == AsciiLower \cup {"<a-grave>", "<Z-caron>", "<z-caron>"}
\* [A-Z<A-grave>-<Z-caron>-_0-9.]: U+00E0, a lower-case letter, lies in the range
UpperRange == AsciiUpper \cup {"<A-grave>", "<a-grave>", "<Z-caron>"}
                  \cup {"-", "_", "."} \cup Digits
Punct4 == {"!", "?", ".", ","}

\* (?u)([<nb-hyphen><hyphen><small-emdash><small-hyphen>])  ->  -
CM_hyphens(line) ==
    ReSub(
        Grp(1, Set({"<nb-hyphen>", "<hyphen>", "<small-emdash>", "<small-hyphen>"})),
        LAMBDA s, m : <<"-">>,
        line)

\* (?u)(\w|\b|\s|^)(-\s?-{1,2})  ->  \1<emdash>
CM_multidash(line) ==
    ReSub(
        Cat(<<Grp(1, Alt(<<Set(UWord), WordB(UWord), Set(USpace), Bol>>)),
              Grp(2, Cat(<<Chr("-"), Opt(Set(USpace)), Rep(Chr("-"), 1, 2)>>))>>),
        LAMBDA s, m : Group(s, m, 1) \o <<"<emdash>">>,
        line)

\* (?u)(^\W*[-_.:<>~"\']+\W*$)  ->  empty
CM_non_word_only(line) ==
    ReSub(
        Grp(1, Cat(<<Bol, Star(NotSet(UWord)),
                     Plus(Set({"-", "_", ".", ":", "<", ">", "~", "\"", "'"})),
                     Star(NotSet(UWord)), Eol>>)),
        LAMBDA s, m : <<>>,
        line)

\* (?u)^\s?>>\s*  ->  empty
CM_leading_crocodiles(line) ==
    ReSub(
        Cat(<<Bol, Opt(Set(USpace)), Chr(">"), Chr(">"), Star(Set(USpace))>>),
        LAMBDA s, m : <<>>,
        line)

\* (?u)(^\W*:\s*(?=\w+))  ->  empty
CM_empty_colon_start(line) ==
    ReSub(
        Grp(1, Cat(<<Bol, Star(NotSet(UWord)), Chr(":"), Star(Set(USpace)),
                     Ahead(Plus(Set(UWord)))>>)),
        LAMBDA s, m : <<>>,
        line)

\* (?u)(^[-\s>~]*[*#<pilcrow>]+\s+)|(\s*[*#<pilcrow>]+\s*$)
\*   ->  "<note> " if group 1 matched, else " <note>"
MusicSymbols == {"*", "#", "<pilcrow>"}
CM_music_symbols(line) ==
    ReSub(
        Alt(<<Grp(1, Cat(<<Bol, Star(Set(USpace \cup {"-", ">", "~"})),
                           Plus(Set(MusicSymbols)), Plus(Set(USpace))>>)),
              Grp(2, Cat(<<Star(Set(USpace)), Plus(Set(MusicSymbols)),
                           Star(Set(USpace)), Eol>>))>>),
        LAMBDA s, m : IF Group(s, m, 1) # <<>> THEN <<"<note>", " ">> ELSE <<" ", "<note>">>,
        line)

\* (?u)([\'...][\'...]+)  ->  "
CM_double_apostrophe(line) ==
    ReSub(
        Grp(1, Cat(<<Set(SQuotes), Plus(Set(SQuotes))>>)),
        LAMBDA s, m : <<"\"">>,
        line)

\* (?u)([A-z<A-grave>-<z-caron>])"([A-z<A-grave>-<z-caron>])  ->  \1'\2
CM_double_as_single(line) ==
    ReSub(
        Cat(<<Grp(1, Set(Letterish)), Chr("\""), Grp(2, Set(Letterish))>>),
        LAMBDA s, m : Group(s, m, 1) \o <<"'">> \o Group(s, m, 2),
        line)

\* (?u)(\s*["...])\s*(["...]["...\s]*)
\*   ->  '"' + (" " if match.group(2).endswith(" ") else "")
CM_normalize_quotes(line) ==
    ReSub(
        Cat(<<Grp(1, Cat(<<Star(Set(USpace)), Set(DQuotes)>>)),
              Star(Set(USpace)),
              Grp(2, Cat(<<Set(DQuotes), Star(Set(DQuotes \cup USpace))>>))>>),
        LAMBDA s, m : <<"\"">> \o (IF EndsWith(Group(s, m, 2), <<" ">>) THEN <<" ">> ELSE <<>>),
        line)

\* (?u)([\'...])  ->  '
CM_normalize_squotes(line) ==
    ReSub(
        Grp(1, Set(SQuotes)),
        LAMBDA s, m : <<"'">>,
        line)

\* (?u)^\.\.\.[\s]*  ->  empty
CM_leading_ellipsis(line) ==
    ReSub(
        Cat(<<Bol, Lit(<<".", ".", ".">>), Star(Set(USpace))>>),
        LAMBDA s, m : <<>>,
        line)

\* (?ui).+downloaded\s+from.+  ->  empty
CM_crap(line) ==
    ReSub(
        Cat(<<Plus(Dot), LitI(<<"d","o","w","n","l","o","a","d","e","d">>),
              Plus(Set(USpace)), LitI(<<"f","r","o","m">>), Plus(Dot)>>),
        LAMBDA s, m : <<>>,
        line)

\* (?u)\.\.\.(?![\s.,!?\'"])(?!$)  ->  "... "
CM_ellipsis_no_space(line) ==
    ReSub(
        Cat(<<Lit(<<".", ".", ".">>),
              NotAhead(Set(USpace \cup {".", ",", "!", "?", "'", "\""})),
              NotAhead(Eol)>>),
        LAMBDA s, m : <<".", ".", ".", " ">>,
        line)

\* (?u)(?<=[^\s])(?<!\s)\. \. \.  ->  " . . ."
CM_ellipsis_no_space2(line) ==
    ReSub(
        Cat(<<Behind(NotSet(USpace), 1), NotBehind(Set(USpace), 1),
              Lit(<<".", " ", ".", " ", ".">>)>>),
        LAMBDA s, m : <<" ", ".", " ", ".", " ", ".">>,
        line)

\* (?u)[\s]{2,}  ->  " "
CM_multiple_spaces(line) ==
    ReSub(
        Rep(Set(USpace), 2, Inf),
        LAMBDA s, m : <<" ">>,
        line)

\* (?u)\.{3,}  ->  "..."
CM_dots(line) ==
    ReSub(
        Rep(Chr("."), 3, Inf),
        LAMBDA s, m : <<".", ".", ".">>,
        line)

\* (?u)^-(?![\s-])  ->  "- "
CM_dash_space(line) ==
    ReSub(
        Cat(<<Bol, Chr("-"), NotAhead(Set(USpace \cup {"-"}))>>),
        LAMBDA s, m : <<"-", " ">>,
        line)

\* (?u)^(?!\s?(\.\s\.\s\.)|(\s?\.{3}))(?=\.+\s+)[\s.]*  ->  empty
CM_starting_spacedots(line) ==
    ReSub(
        Cat(<<Bol,
              NotAhead(Alt(<<Cat(<<Opt(Set(USpace)),
                                   Grp(1, Cat(<<Chr("."), Set(USpace), Chr("."),
                                                Set(USpace), Chr(".")>>))>>),
                             Grp(2, Cat(<<Opt(Set(USpace)), Rep(Chr("."), 3, 3)>>))>>)),
              Ahead(Cat(<<Plus(Chr(".")), Plus(Set(USpace))>>)),
              Star(Set(USpace \cup {"."}))>>),
        LAMBDA s, m : <<>>,
        line)

\* (?u)([a-z<a-grave>-<z-caron>]+)(I+)  ->  group 1, then one "l" per "I" of group 2
CM_uppercase_i_in_word(line) ==
    ReSub(
        Cat(<<Grp(1, Plus(Set(LowerRange))), Grp(2, Plus(Chr("I")))>>),
        LAMBDA s, m : Group(s, m, 1) \o [i \in 1..Len(Group(s, m, 2)) |-> "l"],
        line)

\* (?u)(\b[0-9]+[0-9:\']*(?<!\.\.)\s+(?!\.\.)[0-9,.:\'\s]*(?=[0-9]+)[0-9,.:\'])
\*   ->  group 1 without its space if it holds exactly one " ", else group 1
RemoveSpaces(t) == SelectSeq(t, LAMBDA c : c # " ")
CM_spaces_in_numbers(line) ==
    ReSub(
        Grp(1, Cat(<<WordB(UWord), Plus(Set(Digits)), Star(Set(Digits \cup {":", "'"})),
                     NotBehind(Lit(<<".", ".">>), 2),
                     Plus(Set(USpace)),
                     NotAhead(Lit(<<".", ".">>)),
                     Star(Set(Digits \cup {",", ".", ":", "'"} \cup USpace)),
                     Ahead(Plus(Set(Digits))),
                     Set(Digits \cup {",", ".", ":", "'"})>>)),
        LAMBDA s, m : IF Len(Group(s, m, 1)) - Len(RemoveSpaces(Group(s, m, 1))) = 1
                      THEN RemoveSpaces(Group(s, m, 1)) ELSE Group(s, m, 1),
        line)

\* (?u)((?<!(?=\s*[A-Z<A-grave>-<Z-caron>-_0-9.]\s*))(?:[^.\s])+\.\s+)([a-z<a-grave>-<z-caron>])
\*   ->  group 1, then group 2 in upper case
CM_uppercase_after_dot(line) ==
    ReSub(
        Cat(<<Grp(1, Cat(<<NotBehind(Ahead(Cat(<<Star(Set(USpace)), Set(UpperRange),
                                                 Star(Set(USpace))>>)), 0),
                           Plus(NGrp(NotSet(USpace \cup {"."}))),
                           Chr("."), Plus(Set(USpace))>>)),
              Grp(2, Set(LowerRange))>>),
        LAMBDA s, m : Group(s, m, 1) \o <<UpperChar(Group(s, m, 2)[1])>>,
        line)

\* unicode.strip()
RECURSIVE Strip(_)
Strip(t) ==
    IF t = <<>> THEN t
    ELSE IF t[1] \in USpace THEN Strip(Tail(t))
    ELSE IF t[Len(t)] \in USpace THEN Strip(SubSeq(t, 1, Len(t) - 1))
    ELSE t

\* (?u)(\s*[,!?])\s*([,.!?][,.!?\s]*)
\*   ->  match.group(1).strip() + (" " if match.group(2).endswith(" ") else "")
CM_double_interpunct(line) ==
    ReSub(
        Cat(<<Grp(1, Cat(<<Star(Set(USpace)), Set({",", "!", "?"})>>)),
              Star(Set(USpace)),
              Grp(2, Cat(<<Set(Punct4), Star(Set(Punct4 \cup USpace))>>))>>),
        LAMBDA s, m : Strip(Group(s, m, 1))
                      \o (IF EndsWith(Group(s, m, 2), <<" ">>) THEN <<" ">> ELSE <<>>),
        line)

\* (?u)(?:(?<=^)|(?<=\w)) +([!?.,](?![!?.,]| \.))  ->  \1
CM_punctuation_space(line) ==
    ReSub(
        Cat(<<NGrp(Alt(<<Behind(Bol, 0), Behind(Set(UWord), 1)>>)),
              Plus(Chr(" ")),
              Grp(1, Cat(<<Set(Punct4),
                           NotAhead(Alt(<<Set(Punct4), Lit(<<" ", ".">>)>>))>>))>>),
        LAMBDA s, m : Group(s, m, 1),
        line)

\* the names the domain lookup knows, of which the model holds three
TldNames == {<<"c", "o", "m">>, <<"n", "e", "t">>, <<"o", "r", "g">>}
\* the text after the last "." of t
RECURSIVE LastLabel(_)
LastLabel(t) ==
    IF \A i \in 1..Len(t) : t[i] # "." THEN t
    ELSE LastLabel(Tail(t))
\* get_tld(url, fail_silently=True, fix_protocol=True) finds a top-level domain
get_tld(url) == LastLabel(Lower(url)) \in TldNames

\* (?u)(([^\s]*)([!?.,:])([A-z<A-grave>-<z-caron>]{2,}))
\*   ->  groups 2 and 3, a space, group 4, unless get_tld knows group 1
CM_punctuation_space2(line) ==
    ReSub(
        Grp(1, Cat(<<Grp(2, Star(NotSet(USpace))),
                     Grp(3, Set({"!", "?", ".", ",", ":"})),
                     Grp(4, Rep(Set(BytesLetterish), 2, Inf))>>)),
        LAMBDA s, m : IF ~get_tld(Group(s, m, 1))
                      THEN Group(s, m, 2) \o Group(s, m, 3) \o <<" ">> \o Group(s, m, 4)
                      ELSE Group(s, m, 1),
        line)

\* (?u)(\b)i(\b)  ->  \1I\2
CM_EN_lowercase_i(line) ==
    ReSub(
        Cat(<<Grp(1, WordB(UWord)), Chr("i"), Grp(2, WordB(UWord))>>),
        LAMBDA s, m : Group(s, m, 1) \o <<"I">> \o Group(s, m, 2),
        line)


\* CommonFixes.processors, in the declared order
CommonFixes_processors ==
    <<"CM_hyphens", "CM_multidash", "CM_non_word_only", "CM_leading_crocodiles",
      "CM_empty_colon_start", "CM_music_symbols", "CM_double_apostrophe",
      "CM_double_as_single", "CM_normalize_quotes", "CM_normalize_squotes",
      "CM_leading_ellipsis", "CM_crap", "CM_ellipsis_no_space", "CM_ellipsis_no_space2",
      "CM_multiple_spaces", "CM_dots", "CM_dash_space", "CM_starting_spacedots",
      "CM_uppercase_i_in_word", "CM_spaces_in_numbers", "CM_uppercase_after_dot",
      "CM_double_interpunct", "CM_punctuation_space", "CM_punctuation_space2",
      "CM_EN_lowercase_i">>

\* ReverseRTL.processors
ReverseRTL_processors == <<"CM_RTL_reverse">>

\* supported=lambda p: p.language == ENGLISH; every other rule is always supported
ENGLISH == "eng"
Supported(name, lang) == name = "CM_EN_lowercase_i" => lang = ENGLISH

\* processor.process(line) of the processor called name
Process(name, line) ==
    CASE name = "CM_hyphens" -> CM_hyphens(line)
      [] name = "CM_multidash" -> CM_multidash(line)
      [] name = "CM_non_word_only" -> CM_non_word_only(line)
      [] name = "CM_leading_crocodiles" -> CM_leading_crocodiles(line)
      [] name = "CM_empty_colon_start" -> CM_empty_colon_start(line)
      [] name = "CM_music_symbols" -> CM_music_symbols(line)
      [] name = "CM_double_apostrophe" -> CM_double_apostrophe(line)
      [] name = "CM_double_as_single" -> CM_double_as_single(line)
      [] name = "CM_normalize_quotes" -> CM_normalize_quotes(line)
      [] name = "CM_normalize_squotes" -> CM_normalize_squotes(line)
      [] name = "CM_leading_ellipsis" -> CM_leading_ellipsis(line)
      [] name = "CM_crap" -> CM_crap(line)
      [] name = "CM_ellipsis_no_space" -> CM_ellipsis_no_space(line)
      [] name = "CM_ellipsis_no_space2" -> CM_ellipsis_no_space2(line)
      [] name = "CM_multiple_spaces" -> CM_multiple_spaces(line)
      [] name = "CM_dots" -> CM_dots(line)
      [] name = "CM_dash_space" -> CM_dash_space(line)
      [] name = "CM_starting_spacedots" -> CM_starting_spacedots(line)
      [] name = "CM_uppercase_i_in_word" -> CM_uppercase_i_in_word(line)
      [] name = "CM_spaces_in_numbers" -> CM_spaces_in_numbers(line)
      [] name = "CM_uppercase_after_dot" -> CM_uppercase_after_dot(line)
      [] name = "CM_double_interpunct" -> CM_double_interpunct(line)
      [] name = "CM_punctuation_space" -> CM_punctuation_space(line)
      [] name = "CM_punctuation_space2" -> CM_punctuation_space2(line)
      [] name = "CM_EN_lowercase_i" -> CM_EN_lowercase_i(line)
      [] name = "CM_RTL_reverse" -> CM_RTL_reverse(line)

\* the processors of the modification called id
Processors(id) == IF id = "reverse_rtl" THEN ReverseRTL_processors ELSE CommonFixes_processors

-----------------------------------------------------------------------------
(* Subtitle entries *)

\* SSAEvent.duration
Duration(e) == e.end - e.start

\* the entry at position i (from 1) of a file: entries follow each other at
\* intervals of 1000, and each lasts d
EntryAt(i, text, d) == [start |-> (i - 1) * 1000, end |-> (i - 1) * 1000 + d, text |-> text]

\* SSAEvent.OVERRIDE_SEQUENCE, {[^}]*}: a style tag
OVERRIDE_SEQUENCE == Cat(<<Chr("{"), Star(NotSet({"}"})), Chr("}")>>)
\* str.replace of the two characters a b by the character c
RECURSIVE ReplacePair(_, _, _, _)
ReplacePair(cs, a, b, c) ==
    IF Len(cs) < 2 THEN cs
    ELSE IF cs[1] = a /\ cs[2] = b THEN <<c>> \o ReplacePair(SubSeq(cs, 3, Len(cs)), a, b, c)
    ELSE <<cs[1]>> \o ReplacePair(Tail(cs), a, b, c)
\* SSAEvent.plaintext: the text without its style tags, backslash-h as a
\* space, backslash-n and the line-break marker as newlines
PlainText(text) ==
    ReplacePair(
        ReplacePair(
            ReplacePair(ReSub(OVERRIDE_SEQUENCE, LAMBDA s, m : <<>>, Chars(text)),
                        "\\", "h", " "),
            "\\", "n", "\n"),
        "\\", "N", "\n")
\* the setter of SSAEvent.plaintext: newlines become line-break markers
FromPlainText(plain) == [i \in 1..Len(plain) |-> IF plain[i] = "\n" THEN NL ELSE plain[i]]

\* parent.f[i] for a Python index i, which counts from 0 and, below 0, from the end
PyItem(seq, i) == IF i < 0 THEN seq[Len(seq) + i + 1] ELSE seq[i + 1]

-----------------------------------------------------------------------------
(* FixIncremental.modify *)

\* line 199: the line sub repeats the end of the previous entry's text
IsIncremental(prev, sub) ==
    /\ prev # None
    /\ prev.text # <<>>
    /\ EndsWith(Lower(prev.text), Lower(sub))

\* lines 197-203: the lines of the entry that are kept
KeptSubs(prev, entry) ==
    SelectSeq(Split(entry.text), LAMBDA sub : ~IsIncremental(prev, sub))

\* lines 205-206: the text the entry is left with
IncrementalText(prev, entry) ==
    LET subs == KeptSubs(prev, entry)
    IN  IF subs # <<>> THEN Join(subs) ELSE entry.text

\* one round of the loop of lines 196-208
FixIncrementalStep ==
    /\ ident = "fix_incremental"
    /\ pc = "loop"
    /\ index < Len(f)
    /\ LET entry == [f[index + 1] EXCEPT !.text = IncrementalText(prev_entry, f[index + 1])]
       IN  /\ f' = [f EXCEPT ![index + 1] = entry]
           /\ prev_entry' = entry
    /\ index' = index + 1
    /\ UNCHANGED <<ident, language, encoding, input, pc, entries, last_lines, has_space,
                   current_new_lines, f_entries, content, proc, results>>

\* the loop is over and modify returns
FixIncrementalReturn ==
    /\ ident = "fix_incremental"
    /\ pc = "loop"
    /\ index = Len(f)
    /\ pc' = "done"
    /\ UNCHANGED <<ident, language, encoding, input, f, index, prev_entry, entries, last_lines,
                   has_space, current_new_lines, f_entries, content, proc, results>>

-----------------------------------------------------------------------------
(* FixUppercase.modify *)

\* one round of the loop of lines 182-183
FixUppercaseStep ==
    /\ ident = "fix_uppercase"
    /\ pc = "loop"
    /\ index < Len(f)
    /\ f' = [f EXCEPT ![index + 1].text = FromPlainText(capitalize(PlainText(@)))]
    /\ index' = index + 1
    /\ UNCHANGED <<ident, language, encoding, input, pc, prev_entry, entries, last_lines, has_space,
                   current_new_lines, f_entries, content, proc, results>>

FixUppercaseReturn ==
    /\ ident = "fix_uppercase"
    /\ pc = "loop"
    /\ index = Len(f)
    /\ pc' = "done"
    /\ UNCHANGED <<ident, language, encoding, input, f, index, prev_entry, entries, last_lines,
                   has_space, current_new_lines, f_entries, content, proc, results>>

-----------------------------------------------------------------------------
(* RemoveTags.modify *)

\* one round of the loop of lines 140-142: entry.plaintext = entry.plaintext
RemoveTagsStep ==
    /\ ident = "remove_tags"
    /\ pc = "loop"
    /\ index < Len(f)
    /\ f' = [f EXCEPT ![index + 1].text = FromPlainText(PlainText(@))]
    /\ index' = index + 1
    /\ UNCHANGED <<ident, language, encoding, input, pc, prev_entry, entries, last_lines, has_space,
                   current_new_lines, f_entries, content, proc, results>>

RemoveTagsReturn ==
    /\ ident = "remove_tags"
    /\ pc = "loop"
    /\ index = Len(f)
    /\ pc' = "done"
    /\ UNCHANGED <<ident, language, encoding, input, f, index, prev_entry, entries, last_lines,
                   has_space, current_new_lines, f_entries, content, proc, results>>

-----------------------------------------------------------------------------
(* FixShort.modify *)

max_duration == 500
max_line_len == 200
max_lines == 3

\* ".+\W$", compiled without (?u)
ends_non_word_re == Cat(<<Plus(Dot), NotSet(AsciiWord), Eol>>)

\* lines 238-249: new_line for a line, given last_line
NewLine(last_line, line) ==
    IF line # <<>>
    THEN IF last_line # line /\ last_line # <<>> /\ Len(last_line \o line) <= max_line_len
         THEN IF ReMatchAt(ends_non_word_re, line, 0) # NoMatch
              THEN IF EndsWith(last_line, <<" ">>)
                   THEN last_line \o line
                   ELSE last_line \o <<" ">> \o line
              ELSE <<>>
         ELSE line
    ELSE <<>>

\* lines 235-251: current_new_lines for the lines of an entry
RECURSIVE PackLines(_, _)
PackLines(lines, last_line) ==
    IF lines = <<>> THEN <<>>
    ELSE <<NewLine(last_line, Head(lines))>>
         \o PackLines(Tail(lines), NewLine(last_line, Head(lines)))

\* line 256: the entry is merged into the previous one
Mergeable(prev, new_lines) ==
    Duration(prev) < max_duration /\ Len(new_lines) < max_lines

\* lines 254-264: entry_text
EntryText(prev, new_lines) ==
    IF prev # None
    THEN IF Mergeable(prev, new_lines)
         THEN prev.text \o <<NL>> \o Join(new_lines)
         ELSE Join(new_lines)
    ELSE Join(new_lines)

\* a new_entry copied from the current entry instead (the line 266 that is
\* commented out)
NewEntryFromEntry(prev, entry, entry_text) == [entry EXCEPT !.text = entry_text]

\* lines 270-271: new_entry, a copy of prev_entry with the new text
NewEntry(prev, entry, entry_text) == [prev EXCEPT !.text = entry_text]

\* the characters outside ASCII
NonAscii ==
    Accented \cup (SQuotes \ {"'"}) \cup (DQuotes \ {"\""})
        \cup {"<note>", "<emdash>", "<nbsp>", "<pilcrow>",
              "<nb-hyphen>", "<hyphen>", "<small-emdash>", "<small-hyphen>"}
\* line 258, print "HIT", prev_entry.text, " + ", entry.text: the statement
\* is reached when the entry is merged, and writing a text with a character
\* outside ASCII to a standard output that has no encoding (a pipe, a file)
\* raises UnicodeEncodeError; a standard output with the encoding UTF-8
\* takes every text
PrintRaises(prev, entry, new_lines) ==
    /\ prev # None
    /\ Mergeable(prev, new_lines)
    /\ encoding = "None"
    /\ \E c \in Range(prev.text) \cup Range(entry.text) : c \in NonAscii

\* lines 230-233: last_lines at the start of a round of the loop
LastLines ==
    IF last_lines = <<>> /\ PyItem(f, index - 1) # None
    THEN Split(PyItem(f, index - 1).text)
    ELSE last_lines

\* a round of the loop in which the print of line 258 raises: modify is
\* left through the exception, and line 276 is not reached
FixShortRaise ==
    /\ ident = "fix_short"
    /\ pc = "loop"
    /\ index < Len(f)
    /\ PrintRaises(prev_entry, f[index + 1], PackLines(Split(f[index + 1].text), <<>>))
    /\ last_lines' = LastLines
    /\ has_space' = (Len(LastLines) < max_lines)
    /\ current_new_lines' = PackLines(Split(f[index + 1].text), <<>>)
    /\ index' = index + 1
    /\ pc' = "raised"
    /\ UNCHANGED <<ident, language, encoding, input, f, prev_entry, entries, f_entries, content,
                   proc, results>>

\* one round of the loop of lines 228-273
FixShortStep ==
    /\ ident = "fix_short"
    /\ pc = "loop"
    /\ index < Len(f)
    /\ ~PrintRaises(prev_entry, f[index + 1], PackLines(Split(f[index + 1].text), <<>>))
    /\ LET entry == f[index + 1]
           lines == LastLines
           new_lines == PackLines(Split(entry.text), <<>>)
           entry_text == EntryText(prev_entry, new_lines)
       IN  /\ last_lines' = lines
           /\ has_space' = (Len(lines) < max_lines)
           /\ current_new_lines' = new_lines
           /\ IF prev_entry = None
              THEN /\ prev_entry' = entry
                   /\ entries' = entries
              ELSE /\ prev_entry' = NewEntry(prev_entry, entry, entry_text)
                   /\ entries' = Append(entries, NewEntry(prev_entry, entry, entry_text))
    /\ index' = index + 1
    /\ UNCHANGED <<ident, language, encoding, input, f, pc, f_entries, content, proc, results>>

\* line 276: parent.f.entries = entries
FixShortReturn ==
    /\ ident = "fix_short"
    /\ pc = "loop"
    /\ index = Len(f)
    /\ f_entries' = entries
    /\ pc' = "done"
    /\ UNCHANGED <<ident, language, encoding, input, f, index, prev_entry, entries, last_lines,
                   has_space, current_new_lines, content, proc, results>>

-----------------------------------------------------------------------------
(* A rule set run on a line: the processors in their declared order, each  *)
(* on the result of the one before; the whole rule set is run MaxRuns      *)
(* times, each run on the result of the run before.                        *)

MaxRuns == 2

\* the next processor of the run
ProcessorStep ==
    /\ ident \in {"common", "reverse_rtl"}
    /\ pc = "loop"
    /\ proc <= Len(Processors(ident))
    /\ content' = IF Supported(Processors(ident)[proc], language)
                  THEN Process(Processors(ident)[proc], content)
                  ELSE content
    /\ proc' = proc + 1
    /\ UNCHANGED <<ident, language, encoding, input, f, pc, index, prev_entry, entries, last_lines,
                   has_space, current_new_lines, f_entries, results>>

\* the run is over; its result is the input of the next run
RunReturn ==
    /\ ident \in {"common", "reverse_rtl"}
    /\ pc = "loop"
    /\ proc > Len(Processors(ident))
    /\ results' = Append(results, content)
    /\ proc' = 1
    /\ pc' = IF Len(results) + 1 < MaxRuns THEN "loop" ELSE "done"
    /\ UNCHANGED <<ident, language, encoding, input, f, index, prev_entry, entries, last_lines,
                   has_space, current_new_lines, f_entries, content>>

-----------------------------------------------------------------------------
(* The inputs *)

MaxEntries  == 3    \* entries of a file of FixShort and FixIncremental
MaxSubs     == 2    \* lines of an entry of a file of FixIncremental
MaxPlainLen == 3    \* characters of an entry of a file of FixUppercase and RemoveTags
MaxLineLen  == 5    \* characters of a line handed to a rule set

\* the texts of length 0 .. n over the characters A
Strings(A, n) == UNION {[1..k -> A] : k \in 0..n}
\* the sequences of length 0 .. n of elements of S
Seqs(S, n) == UNION {[1..k -> S] : k \in 0..n}

\* FixShort: entries of one, two and three lines; lines that end in a word
\* character, in a space and in punctuation; a repeated line; an empty text;
\* a text outside ASCII
ShortTexts ==
    { <<"a">>,
      <<"<note>">>,
      <<"a", NL, "b", "!">>,
      <<"a", " ", NL, "b", "!", NL, "a">>,
      <<>>,
      <<"b", "!", NL, "b", "!">> }
ShortDurations == {200, 300, 600}
\* sys.stdout.encoding: none for a pipe or a file, UTF-8 for a terminal or
\* under PYTHONIOENCODING
StdoutEncodings == {"None", "UTF-8"}
ShortFiles ==
    { [i \in 1..Len(c) |-> EntryAt(i, c[i][1], c[i][2])] :
          c \in Seqs(ShortTexts \X ShortDurations, MaxEntries) }

\* FixIncremental: lines that repeat or extend one another, in either case,
\* and a line that the lower-cased marker ends with
IncrementalLines == {<<>>, <<"a">>, <<"B">>, <<"a", "b">>, <<"n">>}
IncrementalTexts == {Join(ls) : ls \in Seqs(IncrementalLines, MaxSubs) \ {<<>>}}
Hello == << <<"H", "e", "l", "l", "o">>,
           <<"H", "e", "l", "l", "o", " ", "t", "h", "e", "r", "e">>,
           <<"H", "e", "l", "l", "o", " ", "t", "h", "e", "r", "e", ",", " ", "f", "r", "i", "e", "n", "d">> >>
IncrementalFiles ==
    { [i \in 1..Len(c) |-> EntryAt(i, c[i], 600)] : c \in Seqs(IncrementalTexts, MaxEntries) }
    \cup { [i \in 1..Len(Hello) |-> EntryAt(i, Hello[i], 600)] }

\* FixUppercase: every short text over three letters, a space, a delimiter, a
\* quotation mark, a backslash and a line break, alone or followed by one of
\* two sentences
UppercaseChars == {"A", "b", "H", " ", ".", "\"", "\\", NL}
UppercaseSentences ==
    { <<"H", "E", "L", "L", "O", ".", " ", "H", "O", "W", " ", "A", "R", "E", " ", "Y", "O", "U", "?">>,
      <<"H", "I", " ", "<note>", " ", "B", "Y", "E">> }
UppercaseFiles ==
    { <<EntryAt(1, t, 600)>> : t \in Strings(UppercaseChars, MaxPlainLen) }
    \cup { <<EntryAt(1, t, 600), EntryAt(2, u, 600)>> :
               t \in Strings(UppercaseChars, MaxPlainLen), u \in UppercaseSentences }

\* RemoveTags: every short text over a letter, the characters of a style tag,
\* of backslash-n and of backslash-h, a newline and a line break, alone or
\* followed by a text with a style tag
RemoveTagsChars == {"a", "{", "}", "\\", "n", "h", "\n", NL}
TaggedText == <<"{", "\\", "i", "1", "}", "a", NL, "{", "\\", "i", "0", "}", "b">>
RemoveTagsFiles ==
    { <<EntryAt(1, t, 600)>> : t \in Strings(RemoveTagsChars, MaxPlainLen) }
    \cup { <<EntryAt(1, t, 600), EntryAt(2, TaggedText, 600)>> :
               t \in Strings(RemoveTagsChars, MaxPlainLen) }

\* ReverseRTL: lines of a letter, a space and two punctuation marks
RTLLines == Strings({"a", " ", ".", "-"}, MaxLineLen)
RTLLanguages == {"heb", "ara", "fas"}

\* CommonFixes: lines of a letter, a space and dots, and two longer lines
CommonLines ==
    Strings({"a", " ", "."}, MaxLineLen)
    \cup { <<".", ".", ".", ".", "a", "b">>, <<".", ".", ".", ".", ".", ".", "a">> }
CommonLanguages == {"eng", "fra"}

-----------------------------------------------------------------------------
(* The specifications: one per modification *)

\* the state in which modify of the modification id is entered
Entered(id, lang, enc, file, line) ==
    /\ ident = id
    /\ language = lang
    /\ encoding = enc
    /\ input = IF id \in {"common", "reverse_rtl"} THEN line ELSE file
    /\ f = file
    /\ pc = "loop"
    /\ index = 0
    /\ prev_entry = None
    /\ entries = <<>>
    /\ last_lines = <<>>
    /\ has_space = FALSE
    /\ current_new_lines = <<>>
    /\ f_entries = <<>>
    /\ content = line
    /\ proc = 1
    /\ results = <<>>

ShortInit ==
    \E file \in ShortFiles, enc \in StdoutEncodings : Entered("fix_short", ENGLISH, enc, file, <<>>)
ShortNext == FixShortStep \/ FixShortRaise \/ FixShortReturn
ShortSpec == ShortInit /\ [][ShortNext]_vars

IncrementalInit ==
    \E file \in IncrementalFiles : Entered("fix_incremental", ENGLISH, "None", file, <<>>)
IncrementalNext == FixIncrementalStep \/ FixIncrementalReturn
IncrementalSpec == IncrementalInit /\ [][IncrementalNext]_vars

RemoveTagsInit == \E file \in RemoveTagsFiles : Entered("remove_tags", ENGLISH, "None", file, <<>>)
RemoveTagsNext == RemoveTagsStep \/ RemoveTagsReturn
RemoveTagsSpec == RemoveTagsInit /\ [][RemoveTagsNext]_vars

UppercaseInit == \E file \in UppercaseFiles : Entered("fix_uppercase", ENGLISH, "None", file, <<>>)
UppercaseNext == FixUppercaseStep \/ FixUppercaseReturn
UppercaseSpec == UppercaseInit /\ [][UppercaseNext]_vars

RTLInit ==
    \E line \in RTLLines, lang \in RTLLanguages : Entered("reverse_rtl", lang, "None", <<>>, line)
RTLNext == ProcessorStep \/ RunReturn
RTLSpec == RTLInit /\ [][RTLNext]_vars

CommonInit ==
    \E line \in CommonLines, lang \in CommonLanguages : Entered("common", lang, "None", <<>>, line)
CommonNext == ProcessorStep \/ RunReturn
CommonSpec == CommonInit /\ [][CommonNext]_vars

Init ==
    ShortInit \/ IncrementalInit \/ RemoveTagsInit \/ UppercaseInit \/ RTLInit \/ CommonInit
Next ==
    ShortNext \/ IncrementalNext \/ RemoveTagsNext \/ UppercaseNext \/ RTLNext \/ CommonNext
Spec == Init /\ [][Next]_vars

-----------------------------------------------------------------------------
(* FixShort: the claims *)

\* the lines of a text, and the packed lines of the i-th entry handed in
LinesOf(text) == Split(text)
Packed(i) == PackLines(Split(input[i].text), <<>>)
ShortDone == ident = "fix_short" /\ pc = "done"

\* C1: an entry whose duration is 500 or more is never merged with its
\* predecessor (the output entry made for it holds its own packed lines
\* only), and a file of two one-line entries, both shorter than 500, yields
\* exactly one output entry that holds both texts.
C1_LongEntryStandsAlone ==
    ShortDone =>
        /\ \A i \in 2..Len(input) :
               Duration(input[i]) >= max_duration
                   => /\ i - 1 <= Len(f_entries)
                      /\ f_entries[i - 1].text = Join(Packed(i))
        /\ ( /\ Len(input) = 2
             /\ \A i \in 1..2 : /\ Len(LinesOf(input[i].text)) = 1
                                /\ Duration(input[i]) < max_duration )
           => /\ Len(f_entries) = 1
              /\ f_entries[1].text = input[1].text \o <<NL>> \o input[2].text

\* C4: when every input entry has at most 3 lines of at most 200
\* characters, every output entry has at most 3 lines, and no line of the
\* output is longer than 200 characters.
C4_OutputWithinLimits ==
    ( /\ ShortDone
      /\ \A i \in 1..Len(input) :
             /\ Len(LinesOf(input[i].text)) <= max_lines
             /\ \A j \in 1..Len(LinesOf(input[i].text)) :
                    Len(LinesOf(input[i].text)[j]) <= max_line_len )
    => \A k \in 1..Len(f_entries) :
           /\ Len(LinesOf(f_entries[k].text)) <= max_lines
           /\ \A j \in 1..Len(LinesOf(f_entries[k].text)) :
                  Len(LinesOf(f_entries[k].text)[j]) <= max_line_len

\* C5: the first entry of a non-empty file is carried through: some output
\* entry's text is, or starts with, the first entry's text, and a file of
\* one entry yields one output entry.
C5_FirstEntryCarried ==
    (ShortDone /\ Len(input) >= 1)
    => /\ \E k \in 1..Len(f_entries) :
              \/ f_entries[k].text = input[1].text
              \/ /\ Len(f_entries[k].text) > Len(input[1].text)
                 /\ SubSeq(f_entries[k].text, 1, Len(input[1].text) + 1)
                        = input[1].text \o <<NL>>
       /\ Len(input) = 1 => Len(f_entries) = 1

\* the packed line the claim C9 describes for a non-empty line
PackedAsClaimed(last, line) ==
    IF /\ last # <<>>
       /\ last # line
       /\ Len(last) + Len(line) <= max_line_len
       /\ line[Len(line)] \notin AsciiWord
    THEN IF last[Len(last)] = " " THEN last \o line ELSE last \o <<" ">> \o line
    ELSE line

\* C9: each non-empty line of the entry just packed is either merged onto
\* the running buffer with a single space or kept as it is; none is replaced
\* by an empty packed line.
C9_NoLineLost ==
    (ident = "fix_short" /\ index >= 1)
    => /\ Len(current_new_lines) = Len(LinesOf(input[index].text))
       /\ \A j \in 1..Len(current_new_lines) :
              LinesOf(input[index].text)[j] # <<>>
                  => /\ current_new_lines[j] # <<>>
                     /\ current_new_lines[j] =
                            PackedAsClaimed(IF j = 1 THEN <<>> ELSE current_new_lines[j - 1],
                                            LinesOf(input[index].text)[j])

\* C10: every output entry, and the running previous entry, carries the
\* start and the end of the first input entry, and whether an entry is
\* merged is decided by the first input entry's duration, whatever the
\* durations of the later entries.
C10_FirstEntryTimes ==
    ident = "fix_short" =>
        /\ prev_entry # None
               => /\ prev_entry.start = input[1].start
                  /\ prev_entry.end = input[1].end
        /\ \A k \in 1..Len(entries) :
               /\ entries[k].start = input[1].start
               /\ entries[k].end = input[1].end
               /\ entries[k].text =
                      IF Duration(input[1]) < max_duration /\ Len(Packed(k + 1)) < max_lines
                      THEN (IF k = 1 THEN input[1].text ELSE entries[k - 1].text)
                           \o <<NL>> \o Join(Packed(k + 1))
                      ELSE Join(Packed(k + 1))
        /\ pc = "done" => f_entries = entries

\* C10's case: three entries, the first short and the later ones long, all
\* merged under the first entry's times
C10_Witness ==
    /\ ShortDone
    /\ Len(input) = 3
    /\ Duration(input[1]) = 300
    /\ Duration(input[2]) = 600
    /\ Duration(input[3]) = 600
    /\ Len(f_entries) = 2
    /\ f_entries[2].start = input[1].start
    /\ f_entries[2].end = input[1].end
    /\ f_entries[2].text = input[1].text \o <<NL>> \o input[2].text \o <<NL>> \o input[3].text

-----------------------------------------------------------------------------
(* FixIncremental: the claims *)

IncrementalDone == ident = "fix_incremental" /\ pc = "done"

\* text b is text a and something more, neither holding a line break
Extends(a, b) ==
    /\ a # <<>>
    /\ Len(b) > Len(a)
    /\ SubSeq(b, 1, Len(a)) = a
    /\ \A i \in 1..Len(b) : b[i] # NL

\* C2: when each entry's text is the previous entry's text plus an addition,
\* the first entry is unchanged and every later entry keeps the addition only.
C2_TypewriterSuffixes ==
    ( /\ IncrementalDone
      /\ Len(input) >= 2
      /\ \A i \in 2..Len(input) : Extends(input[i - 1].text, input[i].text) )
    => /\ f[1].text = input[1].text
       /\ \A i \in 2..Len(input) :
              f[i].text = SubSeq(input[i].text, Len(input[i - 1].text) + 1, Len(input[i].text))

\* the lines of a text that are not a case-insensitive suffix of prev
NotSuffixLines(prev, text) ==
    SelectSeq(LinesOf(text), LAMBDA line : ~EndsWith(Lower(prev), Lower(line)))

\* C3: every entry after the first that the loop has passed holds exactly
\* its lines that are not a case-insensitive suffix of the previous entry's
\* filtered text (no text at all when every line is one), and the entries
\* are the ones handed in, in their order.
C3_KeptLinesOnly ==
    ident = "fix_incremental" =>
        /\ Len(f) = Len(input)
        /\ \A i \in 1..Len(f) : f[i].start = input[i].start /\ f[i].end = input[i].end
        /\ index >= 1 => f[1].text = input[1].text
        /\ \A i \in 2..index :
               f[i].text = Join(NotSuffixLines(f[i - 1].text, input[i].text))

-----------------------------------------------------------------------------
(* FixUppercase: the claims *)

Delimiters == {".", "!", "?", "<note>", "-"}
IsLetter(c) == c \in AsciiLower \cup AsciiUpper \cup Accented

\* position p of s lies in a delimiter token: a delimiter character, or
\* white space with nothing but white space between it and one
InDelimiter(s, p) ==
    \/ s[p] \in Delimiters
    \/ /\ s[p] \in AsciiSpace
       /\ \E q \in 1..Len(s) :
              /\ s[q] \in Delimiters
              /\ \A r \in 1..Len(s) :
                     ((p < r /\ r < q) \/ (q < r /\ r < p)) => s[r] \in AsciiSpace

\* p is the first character of a segment
SegmentStart(s, p) == ~InDelimiter(s, p) /\ (p = 1 \/ InDelimiter(s, p - 1))

\* p is the first letter of a segment
SegmentFirstLetter(s, p) ==
    /\ ~InDelimiter(s, p)
    /\ IsLetter(s[p])
    /\ \A q \in 1..(p - 1) :
           (\A r \in q..p : ~InDelimiter(s, r)) => ~IsLetter(s[q])

\* the text the claim C6 describes: delimiters in place, the first letter of
\* each segment in upper case and the rest of the segment in lower case
FirstLetterCased(s) ==
    [p \in 1..Len(s) |->
        IF InDelimiter(s, p) THEN s[p]
        ELSE IF SegmentFirstLetter(s, p) THEN UpperChar(s[p]) ELSE LowerChar(s[p])]

\* the same with the first character of each segment in place of its first letter
FirstCharacterCased(s) ==
    [p \in 1..Len(s) |->
        IF InDelimiter(s, p) THEN s[p]
        ELSE IF SegmentStart(s, p) THEN UpperChar(s[p]) ELSE LowerChar(s[p])]

\* C6 as stated: the plain text assigned to every entry the loop has passed
\* is the entry's plain text with its delimiters in place and every segment
\* with its first letter in upper case and the rest in lower case.
C6_FirstLetterUpper ==
    ident = "fix_uppercase" =>
        \A i \in 1..index :
            f[i].text = FromPlainText(FirstLetterCased(PlainText(input[i].text)))

\* C6 as amended: the plain text assigned to every entry the loop has passed
\* is the entry's plain text with its delimiters in place and every segment
\* with its first character in upper case (which changes it only if it is a
\* letter) and the rest in lower case; the length and the delimiters are
\* those of the input's plain text.
C6_FirstCharacterUpper ==
    ident = "fix_uppercase" =>
        \A i \in 1..index :
            f[i].text = FromPlainText(FirstCharacterCased(PlainText(input[i].text)))

\* C6's case: a segment that starts with a quotation mark, and the sentence
\* of the specification
C6_Witness ==
    /\ ident = "fix_uppercase"
    /\ pc = "done"
    /\ Len(f) = 2
    /\ input[1].text = <<"\"", "A", "b">>
    /\ f[1].text = <<"\"", "a", "b">>
    /\ input[2].text = <<"H", "E", "L", "L", "O", ".", " ", "H", "O", "W", " ",
                         "A", "R", "E", " ", "Y", "O", "U", "?">>
    /\ f[2].text = <<"H", "e", "l", "l", "o", ".", " ", "H", "o", "w", " ",
                     "a", "r", "e", " ", "y", "o", "u", "?">>

-----------------------------------------------------------------------------
(* ReverseRTL and CommonFixes: the claims *)

RTLPunctuation == USpace \cup {".", "!", "?", ":", ",", "'", "-"}

\* the first k characters of s are its only punctuation and white space
LeadingGroup(s, k) ==
    /\ \A p \in 1..k : s[p] \in RTLPunctuation
    /\ \A p \in (k + 1)..Len(s) : s[p] \notin RTLPunctuation
\* the characters of s after the first k are its only punctuation and white space
TrailingGroup(s, k) ==
    /\ \A p \in 1..k : s[p] \notin RTLPunctuation
    /\ \A p \in (k + 1)..Len(s) : s[p] \in RTLPunctuation

\* C7: for a line whose only punctuation and white space is one leading or
\* one trailing group, the first run moves the group to the other end and
\* the second run gives the line back.
C7_TwiceIsIdentity ==
    (ident = "reverse_rtl" /\ pc = "done")
    => \A k \in 1..(Len(input) - 1) :
           /\ LeadingGroup(input, k)
                  => /\ results[1] = SubSeq(input, k + 1, Len(input)) \o SubSeq(input, 1, k)
                     /\ results[2] = input
           /\ TrailingGroup(input, k)
                  => /\ results[1] = SubSeq(input, k + 1, Len(input)) \o SubSeq(input, 1, k)
                     /\ results[2] = input

\* C8: a second run of the rule set changes nothing.
C8_Idempotent ==
    (ident = "common" /\ pc = "done") => results[2] = results[1]

====
